---- MODULE Spec2Model ----
(***************************************************************************)
(* Model of src/boids.jsx: the BoidsModifier rule bundle and the Boids     *)
(* component's effect (canvas set-up, first render, animation frames,      *)
(* mousemove and resize listeners).                                        *)
(*                                                                         *)
(* Numbers.  A JavaScript value is a record [k, v]: k is its kind ("num",  *)
(* "nan", "inf", "null", "undef") and v its payload.  A finite number is   *)
(* held in fixed point: v counts units of 1/Scale, so 1.0 is Scale and a   *)
(* pixel is Scale units.  Products and quotients are rounded toward zero   *)
(* to a whole unit; the sum of two squares under a square root is kept     *)
(* exact before the root is taken.  NaN, Infinity, null and undefined      *)
(* behave as in ECMAScript: ToNumber(null) is 0, ToNumber(undefined) is    *)
(* NaN, every comparison with NaN is false, 0/0 is NaN.                    *)
(***************************************************************************)
EXTENDS Integers, Sequences, FiniteSets

\* Resolution of the fixed-point numbers: Scale units per 1.0, an even
\* number so that 0.5 is exact.
HalfScale == 500
Scale == 2 * HalfScale
\* Largest numBoids prop the model mounts the component with.
MaxBoids == 2
\* Number of animation frames (updateBoids calls) the model runs.
MaxFrames == 3

(* ---------------------------------------------------------------- values *)

Num(n) == [k |-> "num", v |-> n]
NaN == [k |-> "nan", v |-> 0]
Inf(s) == [k |-> "inf", v |-> s]
Null == [k |-> "null", v |-> 0]
Undefined == [k |-> "undef", v |-> 0]
Px(n) == Num(n * Scale)

ToNumber(a) ==
  IF a.k = "null" THEN Num(0) ELSE IF a.k = "undef" THEN NaN ELSE a

IsNaN(a) == ToNumber(a).k = "nan"

Abs(n) == IF n < 0 THEN -n ELSE n
Sign(n) == IF n < 0 THEN -1 ELSE 1
\* Integer quotient rounded toward zero.
TruncDiv(a, b) == Sign(a) * Sign(b) * (Abs(a) \div Abs(b))

Neg(a0) ==
  LET a == ToNumber(a0) IN [a EXCEPT !.v = -@]

Add(a0, b0) ==
  LET a == ToNumber(a0)
      b == ToNumber(b0)
  IN  IF a.k = "nan" \/ b.k = "nan" THEN NaN
      ELSE IF a.k = "inf" THEN (IF b.k = "inf" /\ b.v # a.v THEN NaN ELSE a)
      ELSE IF b.k = "inf" THEN b
      ELSE Num(a.v + b.v)

Sub(a, b) == Add(a, Neg(b))

Mul(a0, b0) ==
  LET a == ToNumber(a0)
      b == ToNumber(b0)
  IN  IF a.k = "nan" \/ b.k = "nan" THEN NaN
      ELSE IF a.k = "inf" \/ b.k = "inf"
           THEN (IF a.v = 0 \/ b.v = 0 THEN NaN ELSE Inf(Sign(a.v) * Sign(b.v)))
      ELSE Num(TruncDiv(a.v * b.v, Scale))

Div(a0, b0) ==
  LET a == ToNumber(a0)
      b == ToNumber(b0)
  IN  IF a.k = "nan" \/ b.k = "nan" THEN NaN
      ELSE IF a.k = "inf" THEN (IF b.k = "inf" THEN NaN ELSE Inf(a.v * Sign(b.v)))
      ELSE IF b.k = "inf" THEN Num(0)
      ELSE IF b.v = 0 THEN (IF a.v = 0 THEN NaN ELSE Inf(Sign(a.v)))
      ELSE Num(TruncDiv(a.v * Scale, b.v))

\* a / n for a loop counter n (numNeighbors), which is a whole number > 0.
DivCount(a0, n) ==
  LET a == ToNumber(a0)
  IN  IF a.k = "num" THEN Num(TruncDiv(a.v, n)) ELSE a

Lt(a0, b0) ==
  LET a == ToNumber(a0)
      b == ToNumber(b0)
  IN  IF a.k = "nan" \/ b.k = "nan" THEN FALSE
      ELSE IF a.k = "inf" THEN a.v < 0 /\ ~(b.k = "inf" /\ b.v < 0)
      ELSE IF b.k = "inf" THEN b.v > 0
      ELSE a.v < b.v

Gt(a, b) == Lt(b, a)

\* Heron's iteration downward from a guess x >= floor(sqrt(n)), n > 0.
RECURSIVE SqrtIter(_, _)
SqrtIter(n, x) ==
  LET next == (x + n \div x) \div 2
  IN  IF next >= x THEN x ELSE SqrtIter(n, next)

\* floor(sqrt(n)) for 0 <= n < 2^31.
ISqrt(n) ==
  IF n < 2 THEN n
  ELSE IF n < 1024 THEN SqrtIter(n, 32)
  ELSE IF n < 1048576 THEN SqrtIter(n, 1024)
  ELSE SqrtIter(n, 46341)

\* floor(sqrt(x^2 + y^2)) in units; operands too large to square in 32 bits
\* are halved first, which keeps the relative precision of the result.
RECURSIVE Magnitude(_, _)
Magnitude(x, y) ==
  IF Abs(x) <= 32767 /\ Abs(y) <= 32767 THEN ISqrt(x * x + y * y)
  ELSE 2 * Magnitude(TruncDiv(x, 2), TruncDiv(y, 2))

\* Math.sqrt(a ** 2 + b ** 2)
SqrtSumSq(a0, b0) ==
  LET a == ToNumber(a0)
      b == ToNumber(b0)
  IN  IF a.k = "nan" \/ b.k = "nan" THEN NaN
      ELSE IF a.k = "inf" \/ b.k = "inf" THEN Inf(1)
      ELSE Num(Magnitude(a.v, b.v))

\* Math.hypot(a, b): an infinite argument wins over NaN.
MathHypot(a0, b0) ==
  LET a == ToNumber(a0)
      b == ToNumber(b0)
  IN  IF a.k = "inf" \/ b.k = "inf" THEN Inf(1) ELSE SqrtSumSq(a, b)

Vec(x, y) == [x |-> x, y |-> y]

(* ------------------------------------------------------- BoidsModifier *)

\* The option bundle with every key absent (options = {}).
NoOptions ==
  [visualRange |-> Undefined, reduceFactor |-> Undefined,
   centeringFactor |-> Undefined, matchingFactor |-> Undefined,
   maxSpeed |-> Undefined, smoothSpeed |-> Undefined,
   acceleration |-> Undefined, minDistanceBoid |-> Undefined,
   avoidFactorBoid |-> Undefined, minDistanceMouse |-> Undefined,
   avoidFactorMouse |-> Undefined]

\* A destructuring default: it applies when the property is undefined.
Default(given, dflt) == IF given.k = "undef" THEN dflt ELSE given

\* constructor(boids, mouse, options): the fields of `this` other than the
\* two references boids and mouse.  No option is validated.
BoidsModifier(options) ==
  [visualRange |-> Default(options.visualRange, Px(55)),
   reduceFactor |-> Default(options.reduceFactor, Num((5 * Scale) \div 10)),
   centeringFactor |-> Default(options.centeringFactor, Num((5 * Scale) \div 100)),
   matchingFactor |-> Default(options.matchingFactor, Num((5 * Scale) \div 100)),
   maxSpeed |-> Default(options.maxSpeed, Num((45 * Scale) \div 100)),
   smoothSpeed |-> Default(options.smoothSpeed, Num((3 * Scale) \div 10)),
   acceleration |-> Default(options.acceleration, Num((35 * Scale) \div 1000)),
   minDistanceBoid |-> Default(options.minDistanceBoid, Px(20)),
   avoidFactorBoid |-> Default(options.avoidFactorBoid, Num((5 * Scale) \div 100)),
   minDistanceMouse |-> Default(options.minDistanceMouse, Px(100)),
   avoidFactorMouse |-> Default(options.avoidFactorMouse, Num((25 * Scale) \div 1000))]

distance(boid1, boid2) ==
  SqrtSumSq(Sub(boid1.position.x, boid2.position.x),
            Sub(boid1.position.y, boid2.position.y))

normalize(x, y) ==
  LET magnitude == MathHypot(x, y)
  IN  IF Gt(magnitude, Num(0))
      THEN Vec(Div(x, magnitude), Div(y, magnitude))
      ELSE Vec(Num(0), Num(0))

applyAcceleration(dx, dy, o) ==
  LET speed == MathHypot(Mul(dx, dx), Mul(dy, dy))
  IN  IF Gt(speed, o.maxSpeed)
      THEN Vec(Mul(Div(dx, speed), o.maxSpeed), Mul(Div(dy, speed), o.maxSpeed))
      ELSE Vec(dx, dy)

\* ToNumber of a plain object such as {x, y}: its primitive is the string
\* "[object Object]", which is not a numeral.
ObjectToNumber(obj) == NaN
\* Reading a property of a number primitive that Number.prototype lacks.
NumberProperty(n, name) == Undefined

\* steer subtracts the two {x, y} objects themselves, not their components,
\* and calls normalize once with a single argument.
steer(current, target, o) ==
  LET desiredDir == Sub(ObjectToNumber(target), ObjectToNumber(current))
      desired == normalize(desiredDir, Undefined)
      steer_ == Sub(ObjectToNumber(desired), ObjectToNumber(current))
      normalizedSteer == normalize(NumberProperty(steer_, "x"),
                                   NumberProperty(steer_, "y"))
  IN  applyAcceleration(Mul(normalizedSteer.x, o.acceleration),
                        Mul(normalizedSteer.y, o.acceleration), o)

\* The loop of coherence over this.boids[1..j].
RECURSIVE coherenceLoop(_, _, _, _)
coherenceLoop(bs, i, o, j) ==
  IF j = 0 THEN [centerX |-> Num(0), centerY |-> Num(0), numNeighbors |-> 0]
  ELSE LET acc == coherenceLoop(bs, i, o, j - 1)
           other == bs[j]
       IN  IF Lt(distance(bs[i], other), o.visualRange)
           THEN [centerX |-> Add(acc.centerX, other.position.x),
                 centerY |-> Add(acc.centerY, other.position.y),
                 numNeighbors |-> acc.numNeighbors + 1]
           ELSE acc

\* The centroid coherence steers to, from the sums acc of its loop.
coherenceTarget(acc) ==
  Vec(DivCount(acc.centerX, acc.numNeighbors),
      DivCount(acc.centerY, acc.numNeighbors))

\* coherence(boid) for boid = this.boids[i]: the array after the call.
coherence(bs, i, o) ==
  LET acc == coherenceLoop(bs, i, o, Len(bs))
  IN  IF acc.numNeighbors > 0
      THEN LET steering == steer(bs[i].position, coherenceTarget(acc), o)
           IN  [bs EXCEPT ![i].velocity =
                  Vec(Add(@.x, Mul(steering.x, o.centeringFactor)),
                      Add(@.y, Mul(steering.y, o.centeringFactor)))]
      ELSE bs

\* The loop of avoidOthers over this.boids[1..j].
RECURSIVE avoidOthersLoop(_, _, _, _)
avoidOthersLoop(bs, i, o, j) ==
  IF j = 0 THEN [moveX |-> Num(0), moveY |-> Num(0)]
  ELSE LET acc == avoidOthersLoop(bs, i, o, j - 1)
           other == bs[j]
       IN  IF j # i /\ Lt(distance(bs[i], other), o.minDistanceBoid)
           THEN [moveX |-> Add(acc.moveX, Sub(bs[i].position.x, other.position.x)),
                 moveY |-> Add(acc.moveY, Sub(bs[i].position.y, other.position.y))]
           ELSE acc

\* avoidOthersPush with the displacement taken from the boid to the other
\* (other.position - boid.position).
avoidOthersPushToward(bs, i, o) ==
  LET acc == avoidOthersLoop(bs, i, o, Len(bs))
      avoidVector == normalize(Neg(acc.moveX), Neg(acc.moveY))
  IN  Vec(Mul(Mul(avoidVector.x, o.avoidFactorBoid), o.reduceFactor),
          Mul(Mul(avoidVector.y, o.avoidFactorBoid), o.reduceFactor))

\* The vector avoidOthers adds to boid.velocity.
avoidOthersPush(bs, i, o) ==
  LET acc == avoidOthersLoop(bs, i, o, Len(bs))
      avoidVector == normalize(acc.moveX, acc.moveY)
  IN  Vec(Mul(Mul(avoidVector.x, o.avoidFactorBoid), o.reduceFactor),
          Mul(Mul(avoidVector.y, o.avoidFactorBoid), o.reduceFactor))

avoidOthers(bs, i, o) ==
  LET push == avoidOthersPush(bs, i, o)
  IN  [bs EXCEPT ![i].velocity = Vec(Add(@.x, push.x), Add(@.y, push.y))]

\* The loop of matchVelocity over this.boids[1..j].
RECURSIVE matchVelocityLoop(_, _, _, _)
matchVelocityLoop(bs, i, o, j) ==
  IF j = 0 THEN [avgDX |-> Num(0), avgDY |-> Num(0), numNeighbors |-> 0]
  ELSE LET acc == matchVelocityLoop(bs, i, o, j - 1)
           other == bs[j]
       IN  IF Lt(distance(bs[i], other), o.visualRange)
           THEN [avgDX |-> Add(acc.avgDX, other.velocity.x),
                 avgDY |-> Add(acc.avgDY, other.velocity.y),
                 numNeighbors |-> acc.numNeighbors + 1]
           ELSE acc

\* matchVelocity up to the speed clamp: boid.velocity blended toward the
\* neighbourhood average.
matchVelocityBlend(bs, i, o) ==
  LET acc == matchVelocityLoop(bs, i, o, Len(bs))
      v == bs[i].velocity
  IN  IF acc.numNeighbors > 0
      THEN LET avgDX == DivCount(acc.avgDX, acc.numNeighbors)
               avgDY == DivCount(acc.avgDY, acc.numNeighbors)
           IN  Vec(Add(v.x, Mul(Sub(avgDX, v.x), o.matchingFactor)),
                   Add(v.y, Mul(Sub(avgDY, v.y), o.matchingFactor)))
      ELSE v

\* clampSpeed without its else-if branch: speeds below half of maxSpeed are
\* left as they are.
clampSpeedNoFloor(v, o) ==
  LET speed == SqrtSumSq(v.x, v.y)
  IN  IF Gt(speed, o.maxSpeed)
      THEN Vec(Mul(Div(v.x, speed), o.maxSpeed), Mul(Div(v.y, speed), o.maxSpeed))
      ELSE v

\* The speed clamp that ends matchVelocity.
clampSpeed(v, o) ==
  LET speed == SqrtSumSq(v.x, v.y)
  IN  IF Gt(speed, o.maxSpeed)
      THEN Vec(Mul(Div(v.x, speed), o.maxSpeed), Mul(Div(v.y, speed), o.maxSpeed))
      ELSE IF Lt(speed, Mul(o.maxSpeed, Num((5 * Scale) \div 10)))
      THEN Vec(Mul(Mul(Div(v.x, speed), o.maxSpeed), Num((75 * Scale) \div 100)),
               Mul(Mul(Div(v.y, speed), o.maxSpeed), Num((75 * Scale) \div 100)))
      ELSE v

matchVelocity(bs, i, o) ==
  [bs EXCEPT ![i].velocity = clampSpeed(matchVelocityBlend(bs, i, o), o)]

\* The vector avoidMouse adds to boid.velocity; m is this.mouse.current.
avoidMousePush(boid, o, m) ==
  LET mouseParsed == [position |-> Vec(m.x, m.y)]
      mouseDistance == distance(boid, mouseParsed)
  IN  IF Lt(mouseDistance, o.minDistanceMouse)
      THEN LET moveX == Sub(boid.position.x, m.x)
               moveY == Sub(boid.position.y, m.y)
               avoidVector == normalize(moveX, moveY)
           IN  Vec(Mul(avoidVector.x, o.avoidFactorMouse),
                   Mul(avoidVector.y, o.avoidFactorMouse))
      ELSE Vec(Num(0), Num(0))

avoidMouse(bs, i, o, m) ==
  LET mouseParsed == [position |-> Vec(m.x, m.y)]
  IN  IF Lt(distance(bs[i], mouseParsed), o.minDistanceMouse)
      THEN LET push == avoidMousePush(bs[i], o, m)
           IN  [bs EXCEPT ![i].velocity = Vec(Add(@.x, push.x), Add(@.y, push.y))]
      ELSE bs

\* applyBehaviors(boid), call by call: each operator takes the record t of
\* the arrays so far and adds the array after the next call.
stepCoherence(bs, i, o) ==
  [start |-> bs, coherence |-> coherence(bs, i, o)]

stepAvoidOthers(t, i, o) ==
  [start |-> t.start, coherence |-> t.coherence,
   avoidOthers |-> avoidOthers(t.coherence, i, o)]

stepAvoidMouse(t, i, o, m) ==
  [start |-> t.start, coherence |-> t.coherence, avoidOthers |-> t.avoidOthers,
   avoidMouse |-> avoidMouse(t.avoidOthers, i, o, m)]

stepMatchVelocity(t, i, o) ==
  [start |-> t.start, coherence |-> t.coherence, avoidOthers |-> t.avoidOthers,
   avoidMouse |-> t.avoidMouse, matchVelocity |-> matchVelocity(t.avoidMouse, i, o)]

\* applyBehaviors(boid): the array after each of its four calls.
behaviorSteps(bs, i, o, m) ==
  stepMatchVelocity(
    stepAvoidMouse(stepAvoidOthers(stepCoherence(bs, i, o), i, o), i, o, m), i, o)

applyBehaviors(bs, i, o, m) == behaviorSteps(bs, i, o, m).matchVelocity

(* ------------------------------------------------------ Boids component *)

VARIABLES
  phase,     \* "rendered": the component returned its canvas; "running": the effect has run
  props,     \* the props of the component: numBoids, size, options
  canvas,    \* canvas.width and canvas.height, in pixels
  mouse,     \* mouseRef.current
  boids,     \* the boids array of the effect
  modifier,  \* the fields of boidsModifier
  frames,    \* how many times render() has run
  last       \* what the latest updateBoids() read and did, boid by boid

vars == <<phase, props, canvas, mouse, boids, modifier, frames, last>>

\* Values of the size prop: the default 8 and a thin one.
Sizes == {8, 1}
\* Values of options.maxSpeed: absent and zero.
MaxSpeedOptions == {Undefined, Num(0)}
\* window.innerWidth and window.innerHeight: a narrow and a wide viewport.
Windows == {[width |-> 400, height |-> 300], [width |-> 800, height |-> 600]}
\* Pointer positions (clientX, clientY) of mousemove events.
MousePoints == {[x |-> 205, y |-> 155]}
\* Outcomes of the four Math.random() calls of createBoid that set position
\* and velocity, as fractions in [0, 1).
Randoms ==
  {[px |-> (50 * Scale) \div 100, py |-> (50 * Scale) \div 100, vx |-> 0, vy |-> 0],
   [px |-> (51 * Scale) \div 100, py |-> (52 * Scale) \div 100,
    vx |-> HalfScale, vy |-> HalfScale],
   [px |-> (999 * Scale) \div 1000, py |-> (999 * Scale) \div 1000,
    vx |-> (65 * Scale) \div 100, vy |-> HalfScale],
   [px |-> 0, py |-> 0, vx |-> 0, vy |-> 0]}

\* Sequences of length n over S.
SeqsOfLen(S, n) == [1..n -> S]

\* createBoid() for one outcome r of its random draws.  The angle it draws
\* is overwritten by drawBoid before anything reads it.
createBoid(r, cv) ==
  [position |-> Vec(Mul(Num(r.px), Px(cv.width)), Mul(Num(r.py), Px(cv.height))),
   velocity |-> Vec(Sub(Mul(Num(r.vx), Num(2 * Scale)), Num(Scale)),
                    Sub(Mul(Num(r.vy), Num(2 * Scale)), Num(Scale))),
   angle |-> Vec(Num(0), Num(0))]

\* drawBoid(boid): the canvas calls aside, it sets boid.angle to
\* Math.atan2(velocity.y, velocity.x), kept here as the pair it is taken of.
drawBoid(boid) == [boid EXCEPT !.angle = Vec(boid.velocity.x, boid.velocity.y)]

\* wrap with the low edge taken as 0 instead of -size.
wrapNoMargin(position, cv, size) ==
  LET x1 == IF Gt(position.x, Add(Px(cv.width), Px(size))) THEN Num(0)
            ELSE position.x
      x2 == IF Lt(x1, Num(0)) THEN Add(Px(cv.width), Px(size)) ELSE x1
      y1 == IF Gt(position.y, Add(Px(cv.height), Px(size))) THEN Num(0)
            ELSE position.y
      y2 == IF Lt(y1, Num(0)) THEN Add(Px(cv.height), Px(size)) ELSE y1
  IN  Vec(x2, y2)

\* The four wrap tests that end the loop body of updateBoids.
wrap(position, cv, size) ==
  LET x1 == IF Gt(position.x, Add(Px(cv.width), Px(size))) THEN Neg(Px(size))
            ELSE position.x
      x2 == IF Lt(x1, Neg(Px(size))) THEN Add(Px(cv.width), Px(size)) ELSE x1
      y1 == IF Gt(position.y, Add(Px(cv.height), Px(size))) THEN Neg(Px(size))
            ELSE position.y
      y2 == IF Lt(y1, Neg(Px(size))) THEN Add(Px(cv.height), Px(size)) ELSE y1
  IN  Vec(x2, y2)

\* position += velocity for boids[i].
integrate(bs, i) ==
  [bs EXCEPT ![i].position = Vec(Add(@.x, bs[i].velocity.x),
                                 Add(@.y, bs[i].velocity.y))]

\* The end of one pass of the loop body of updateBoids for boids[i], from
\* the steps of its applyBehaviors call: the array after the wrap, and what
\* the pass read and did (the array it ran on, after its own position +=
\* velocity, and the velocity after each rule).
wrapBoid(steps, i, o, cv, size) ==
  [boids |-> [steps.matchVelocity EXCEPT ![i].position = wrap(@, cv, size)],
   obs |-> [seen |-> steps.start,
            afterCoherence |-> steps.coherence[i].velocity,
            afterAvoidOthers |-> steps.avoidOthers[i].velocity,
            afterAvoidMouse |-> steps.avoidMouse[i].velocity,
            beforeClamp |-> matchVelocityBlend(steps.avoidMouse, i, o)]]

\* One pass of the loop body of updateBoids for boids[i], on the live array.
updateBoid(bs, i, o, m, cv, size) ==
  wrapBoid(behaviorSteps(integrate(bs, i), i, o, m), i, o, cv, size)

\* updateBoids() from boids[i] on, with the observations gathered so far;
\* updateNext goes on after the pass for boids[i].
RECURSIVE updateFrom(_, _, _, _, _, _, _)
RECURSIVE updateNext(_, _, _, _, _, _, _)
updateNext(pass, obs, i, o, m, cv, size) ==
  updateFrom(pass.boids, Append(obs, pass.obs), i + 1, o, m, cv, size)

updateFrom(bs, obs, i, o, m, cv, size) ==
  IF i > Len(bs) THEN [boids |-> bs, obs |-> obs]
  ELSE updateNext(updateBoid(bs, i, o, m, cv, size), obs, i, o, m, cv, size)

updateBoids(bs, o, m, cv, size) == updateFrom(bs, <<>>, 1, o, m, cv, size)

\* The drawing loop of render().
drawBoids(bs) == [i \in 1..Len(bs) |-> drawBoid(bs[i])]

\* The array after a frame, and what that frame started from.
frame(drawn, upd, m, cv) ==
  [boids |-> upd.boids,
   last |-> [boids |-> drawn, mouse |-> m, canvas |-> cv, obs |-> upd.obs]]

updateDrawn(drawn, o, m, cv, size) ==
  frame(drawn, updateBoids(drawn, o, m, cv, size), m, cv)

\* render(): draw every boid, then updateBoids().
render(bs, o, m, cv, size) == updateDrawn(drawBoids(bs), o, m, cv, size)

\* The narrow-viewport policy of the effect.
mobileOptions(options, innerWidth) ==
  [options EXCEPT !.maxSpeed =
     IF innerWidth < 768 THEN Num((3 * Scale) \div 10) ELSE options.maxSpeed]

Init ==
  /\ phase = "rendered"
  /\ props \in [numBoids : 0..MaxBoids, size : Sizes,
                options : {[NoOptions EXCEPT !.maxSpeed = ms] : ms \in MaxSpeedOptions}]
  /\ canvas = [width |-> 300, height |-> 150]
  /\ mouse = Vec(Null, Null)
  /\ boids = <<>>
  /\ modifier = NoOptions
  /\ frames = 0
  /\ last = [boids |-> <<>>, mouse |-> Vec(Null, Null),
             canvas |-> [width |-> 300, height |-> 150], obs |-> <<>>]

\* The boids array and the record of the frame, after the frame r.
Rendered(r) == boids' = r.boids /\ last' = r.last

\* The effect with its inputs: the window w and the random draws rs.
MountWith(o, w, rs) ==
  /\ canvas' = w
  /\ modifier' = o
  /\ Rendered(render([i \in 1..props.numBoids |-> createBoid(rs[i], w)],
                     o, mouse, w, props.size))

\* The effect: size the canvas, build the modifier, create the boids, run
\* the first render() and register the two listeners.
Mount ==
  /\ phase = "rendered"
  /\ \E w \in Windows, rs \in SeqsOfLen(Randoms, props.numBoids) :
       MountWith(BoidsModifier(mobileOptions(props.options, w.width)), w, rs)
  /\ phase' = "running"
  /\ frames' = 1
  /\ UNCHANGED <<props, mouse>>

\* The requestAnimationFrame callback: render() again.
Render ==
  /\ phase = "running"
  /\ frames < MaxFrames
  /\ Rendered(render(boids, modifier, mouse, canvas, props.size))
  /\ frames' = frames + 1
  /\ UNCHANGED <<phase, props, canvas, mouse, modifier>>

\* The mousemove listener.
MouseMove ==
  /\ phase = "running"
  /\ \E e \in MousePoints : mouse' = Vec(Px(e.x), Px(e.y))
  /\ UNCHANGED <<phase, props, canvas, boids, modifier, frames, last>>

\* The resize listener.
Resize ==
  /\ phase = "running"
  /\ \E w \in Windows : canvas' = w
  /\ UNCHANGED <<phase, props, mouse, boids, modifier, frames, last>>

Next == Mount \/ Render \/ MouseMove \/ Resize

Spec == Init /\ [][Next]_vars

(* ---------------------------------------------------------------- claims *)

Stepped == frames > 0
IsFinite(a) == ToNumber(a).k = "num"
\* a <= b as JavaScript evaluates it.
Le(a, b) == ~IsNaN(a) /\ ~IsNaN(b) /\ ~Lt(b, a)
Agents == 1..Len(boids)
Zero == Vec(Num(0), Num(0))
speedOf(v) == SqrtSumSq(v.x, v.y)
FiniteVec(v) == IsFinite(v.x) /\ IsFinite(v.y)
\* u . w for finite vectors, in units squared.
Dot(u, w) == u.x.v * w.x.v + u.y.v * w.y.v
Minus(u, w) == Vec(Sub(u.x, w.x), Sub(u.y, w.y))
\* The position boids[i] had after position += velocity in the latest step.
Integrated(i) == last.obs[i].seen[i].position
MouseUnset(m) == m.x.k = "null" /\ m.y.k = "null"
HalfMax(o) == Mul(o.maxSpeed, Num((5 * Scale) \div 10))
ThreeQuarterMax(o) == Mul(o.maxSpeed, Num((75 * Scale) \div 100))

\* C1: while the repulsor point is unset, avoidMouse leaves the velocity of
\* every agent unchanged, wherever the agent is.
C1_UnsetMouseIsNoOp ==
  (Stepped /\ MouseUnset(last.mouse)) =>
    \A i \in Agents : last.obs[i].afterAvoidMouse = last.obs[i].afterAvoidOthers

\* C2: an agent whose speed is exactly zero at the speed clamp of
\* matchVelocity, with maxSpeed > 0, keeps a finite velocity and position.
C2_ZeroSpeedStaysFinite ==
  (Stepped /\ Gt(modifier.maxSpeed, Num(0))) =>
    \A i \in Agents :
      last.obs[i].beforeClamp = Zero =>
        FiniteVec(boids[i].velocity) /\ FiniteVec(boids[i].position)

\* C3: after every step the speed of every agent is at most maxSpeed.
C3_SpeedAtMostMax ==
  Stepped => \A i \in Agents : Le(speedOf(boids[i].velocity), modifier.maxSpeed)

\* C4 (as claimed): after any step the speed of every agent lies in
\* [0.75 * maxSpeed, maxSpeed].
C4_SpeedAtLeastThreeQuarters ==
  Stepped =>
    \A i \in Agents :
      /\ Le(ThreeQuarterMax(modifier), speedOf(boids[i].velocity))
      /\ Le(speedOf(boids[i].velocity), modifier.maxSpeed)

\* C4 (amended): with maxSpeed > 0, after any step an agent whose speed at
\* the clamp was a positive number has a speed in [0.5 * maxSpeed, maxSpeed];
\* any other agent (speed zero or NaN at the clamp) has a NaN velocity.
C4_SpeedBand ==
  (Stepped /\ Gt(modifier.maxSpeed, Num(0))) =>
    \A i \in Agents :
      IF Gt(speedOf(last.obs[i].beforeClamp), Num(0))
      THEN /\ Le(HalfMax(modifier), speedOf(boids[i].velocity))
           /\ Le(speedOf(boids[i].velocity), modifier.maxSpeed)
      ELSE IsNaN(boids[i].velocity.x) /\ IsNaN(boids[i].velocity.y)

\* An agent ends a step with a speed at least half and less than three
\* quarters of maxSpeed.
C4_Witness ==
  /\ Stepped
  /\ Gt(modifier.maxSpeed, Num(0))
  /\ \E i \in Agents :
       /\ Gt(speedOf(last.obs[i].beforeClamp), Num(0))
       /\ Le(HalfMax(modifier), speedOf(boids[i].velocity))
       /\ Lt(speedOf(boids[i].velocity), ThreeQuarterMax(modifier))

\* The wrap of one coordinate: c the integrated value, c1 the final one,
\* hi the bound plus the margin, lo minus the margin.
WrappedAs(c, c1, lo, hi) ==
  /\ Gt(c, hi) => c1 = lo
  /\ Lt(c, lo) => c1 = hi
  /\ (Le(lo, c) /\ Le(c, hi)) => c1 = c

\* C5: a coordinate integrated beyond bound + margin ends at -margin, one
\* below -margin ends at bound + margin, one in between is kept.
C5_ToroidalWrap ==
  Stepped =>
    \A i \in Agents :
      /\ WrappedAs(Integrated(i).x, boids[i].position.x, Neg(Px(props.size)),
                   Add(Px(last.canvas.width), Px(props.size)))
      /\ WrappedAs(Integrated(i).y, boids[i].position.y, Neg(Px(props.size)),
                   Add(Px(last.canvas.height), Px(props.size)))

\* In one step one agent leaves by the right and bottom edges, another by
\* the left and top edges.
C5_Witness ==
  /\ Stepped
  /\ \E i, j \in Agents :
       /\ Gt(Integrated(i).x, Add(Px(last.canvas.width), Px(props.size)))
       /\ Gt(Integrated(i).y, Add(Px(last.canvas.height), Px(props.size)))
       /\ Lt(Integrated(j).x, Neg(Px(props.size)))
       /\ Lt(Integrated(j).y, Neg(Px(props.size)))

\* C6: an agent with another agent at a different position within
\* visualRange gets from coherence a non-zero steering vector directed to
\* the neighbourhood centroid, of magnitude at most acceleration *
\* centeringFactor.
C6_CohesionSteers ==
  Stepped =>
    \A i \in Agents :
      LET ob == last.obs[i]
          self == ob.seen[i]
          acc == coherenceLoop(ob.seen, i, modifier, Len(ob.seen))
          target == coherenceTarget(acc)
          steering == Minus(ob.afterCoherence, self.velocity)
      IN  (/\ \E j \in Agents \ {i} :
                /\ Lt(distance(self, ob.seen[j]), modifier.visualRange)
                /\ ob.seen[j].position # self.position
           /\ target # self.position)
          => /\ FiniteVec(steering)
             /\ steering # Zero
             /\ Dot(steering, Minus(target, self.position)) > 0
             /\ Le(speedOf(steering), Mul(modifier.acceleration, modifier.centeringFactor))

\* C7: no simulator is created, and no step runs, with maxSpeed <= 0.
C7_BadConfigRejected ==
  phase = "running" => Gt(modifier.maxSpeed, Num(0))

\* C8 (as claimed): two agents closer than minDistanceBoid when the step
\* runs each change velocity, over the step, away from the other.
C8_StepPushesApart ==
  Stepped =>
    \A i, j \in Agents :
      (i # j /\ Lt(distance(last.boids[i], last.boids[j]), modifier.minDistanceBoid))
      => LET delta == Minus(boids[i].velocity, last.boids[i].velocity)
             axis == Minus(last.boids[i].position, last.boids[j].position)
         IN  FiniteVec(delta) /\ Dot(delta, axis) > 0

\* The other agents avoidOthers found within minDistanceBoid of boids[i].
TooClose(i) ==
  {j \in Agents \ {i} :
     Lt(distance(last.obs[i].seen[i], last.obs[i].seen[j]), modifier.minDistanceBoid)}

\* C8 (amended): for an agent with exactly one other agent within
\* minDistanceBoid, at a different position, the vector avoidOthers adds to
\* its velocity points away from that agent.
C8_SeparationPushesApart ==
  Stepped =>
    \A i \in Agents : \A j \in Agents :
      (TooClose(i) = {j} /\ last.obs[i].seen[j].position # last.obs[i].seen[i].position)
      => LET push == Minus(last.obs[i].afterAvoidOthers, last.obs[i].afterCoherence)
             axis == Minus(last.obs[i].seen[i].position, last.obs[i].seen[j].position)
         IN  FiniteVec(push) /\ Dot(push, axis) > 0

\* A step in which avoidOthers pushed an agent away from its one close
\* neighbour while the agent's velocity over the whole step turned toward it.
C8_Witness ==
  /\ Stepped
  /\ \E i, j \in Agents :
       /\ TooClose(i) = {j}
       /\ last.obs[i].seen[j].position # last.obs[i].seen[i].position
       /\ FiniteVec(boids[i].velocity)
       /\ Dot(Minus(boids[i].velocity, last.boids[i].velocity),
              Minus(last.obs[i].seen[i].position, last.obs[i].seen[j].position)) < 0

\* The step evaluated agent by agent against the array as it was when the
\* step started.
SnapshotStep(start, o, m, cv, size) ==
  [i \in 1..Len(start) |-> updateBoid(start, i, o, m, cv, size).boids[i]]

\* C9: the flock after a step is the one obtained by evaluating every agent
\* against the positions and velocities all agents had when the step started.
C9_SnapshotSemantics ==
  Stepped => boids = SnapshotStep(last.boids, modifier, last.mouse, last.canvas, props.size)

\* C10: after every step each position lies within the canvas of that step
\* widened by the margin on every side.
C10_PositionWithinMargins ==
  Stepped =>
    \A i \in Agents :
      /\ Le(Neg(Px(props.size)), boids[i].position.x)
      /\ Le(boids[i].position.x, Add(Px(last.canvas.width), Px(props.size)))
      /\ Le(Neg(Px(props.size)), boids[i].position.y)
      /\ Le(boids[i].position.y, Add(Px(last.canvas.height), Px(props.size)))

====
